---- MODULE Spec2Model ----
(***************************************************************************)
(* HiringSight analytical core: candidate scoring, the candidate query,    *)
(* the diversity-driven team optimizer, skill parsing, the aggregates      *)
(* shown for a team, and the App shell of the React frontend.              *)
(*                                                                         *)
(* Python dictionaries are records; an optional key is a sequence of       *)
(* length 0 (key absent) or 1 (key present, holding the value).            *)
(***************************************************************************)
EXTENDS Integers, Sequences, FiniteSets, TLC

VARIABLES
    candidate,          \* scoring: the raw candidate record being scored
    calculated_score,   \* scoring: candidate['calculated_score'], <<>> until assigned
    candidates_data,    \* optimizer: the loaded pool, in file order
    request,            \* optimizer: the TeamSelectionRequest of the last call
    response,           \* optimizer: what the endpoint returned
    queryPool,          \* query: the scored pool the query runs over
    filterSpec,         \* query: the FilterSpec of the call
    queryResult,        \* query: the result envelope
    original_skills,    \* skills: a candidate's raw original_skills field
    parsedSkills,       \* skills: <<parseSkills(original_skills)>> once rendered
    reparsedSkills,     \* skills: <<parseSkills(...)>> of the parsed list
    skillDiversity,     \* skills: <<calculateSkillDiversity(...)>> once computed
    teamMembers,        \* aggregates: the candidate set or team aggregated over
    chemistry,          \* aggregates: <<analyzeChemistry()>> once rendered
    teamStats,          \* aggregates: <<teamStats>> of TeamBuilder once rendered
    analyticsCards,     \* aggregates: <<average cards>> of AnalyticsDashboard
    talent_scarcity,    \* aggregates: <<scarcity per skill>> once computed
    loading,            \* App: useState(true)
    overview,           \* App: useState(null)
    overviewRequest,    \* App: the GET /api/v1/overview promise
    currentTab,         \* App: useState('dashboard')
    selectedTeam,       \* App: useState([]), as candidate ids
    compareList,        \* App: useState([]), as candidate ids
    renderedTeam,       \* App: selectedTeam as captured by the handlers of the last render
    renderedCompare,    \* App: compareList as captured by the handlers of the last render
    filters,            \* CandidateExplorer: useState({..., country, search, limit})
    searchTerm,         \* CandidateExplorer: useState('')
    showFilters,        \* CandidateExplorer: useState(false)
    explorerCandidates, \* CandidateExplorer: candidates, useState([]), as candidate ids
    stats,              \* CandidateExplorer: useState(null), the last response data set
    candidatesLoading,  \* CandidateExplorer: its loading, useState(true)
    timers,             \* CandidateExplorer: pending setTimeout callbacks of the effect
    requests,           \* CandidateExplorer: axios.get calls not settled yet
    lastRequest,        \* CandidateExplorer: the most recent axios.get call
    insights,           \* InsightsPanel: useState(null)
    insightsLoading,    \* InsightsPanel: its loading, useState(true)
    error,              \* InsightsPanel: useState(null), <<>> for null
    activeTab,          \* InsightsPanel: useState('executive')
    fetchInsightsAt,    \* InsightsPanel: which run of fetchInsights, and the await it is at
    comparedCandidates, \* Compare: the compareList prop, as candidate objects
    costEffective       \* Compare: the Most Cost-Effective card as rendered

skillVars == <<original_skills, parsedSkills, reparsedSkills, skillDiversity>>
aggVars == <<teamMembers, chemistry, teamStats, analyticsCards, talent_scarcity>>
shellVars == <<loading, overview, overviewRequest, currentTab>>
selectionVars == <<selectedTeam, compareList, renderedTeam, renderedCompare>>
appVars == <<shellVars, selectionVars>>

explorerVars == <<filters, searchTerm, showFilters, explorerCandidates, stats,
                  candidatesLoading, timers, requests, lastRequest>>
insightVars == <<insights, insightsLoading, error, activeTab, fetchInsightsAt>>
compareViewVars == <<comparedCandidates, costEffective>>
panelVars == <<explorerVars, insightVars, compareViewVars>>

\* The state kept by the React components.
uiVars == <<skillVars, aggVars, appVars, panelVars>>

vars == <<candidate, calculated_score, candidates_data, request, response,
          queryPool, filterSpec, queryResult, uiVars>>

scoreVars == <<candidate, calculated_score>>
teamVars  == <<candidates_data, request, response>>
queryVars == <<queryPool, filterSpec, queryResult>>

\* undefined: the field is not on the record.
Undefined == [kind |-> "undefined", items |-> <<>>, text |-> <<>>]

SkillsIdle ==
    /\ original_skills = Undefined
    /\ parsedSkills = <<>>
    /\ reparsedSkills = <<>>
    /\ skillDiversity = <<>>

AggregatesIdle ==
    /\ teamMembers = <<>>
    /\ chemistry = <<>>
    /\ teamStats = <<>>
    /\ analyticsCards = <<>>
    /\ talent_scarcity = <<>>

Null == [kind |-> "null"]

\* The App's useState initial values, before its effect has run.
AppIdle ==
    /\ loading = TRUE
    /\ overview = Null
    /\ overviewRequest = [state |-> "none", data |-> Null]
    /\ currentTab = "dashboard"
    /\ selectedTeam = <<>>
    /\ compareList = <<>>
    /\ renderedTeam = <<>>
    /\ renderedCompare = <<>>

\* No component is mounted.
\* The CandidateExplorer is not mounted.
ExplorerIdle ==
    /\ filters = Null
    /\ searchTerm = ""
    /\ showFilters = FALSE
    /\ explorerCandidates = <<>>
    /\ stats = Null
    /\ candidatesLoading = TRUE
    /\ timers = <<>>
    /\ requests = <<>>
    /\ lastRequest = Null

\* The InsightsPanel is not mounted.
InsightsIdle ==
    /\ insights = Null
    /\ insightsLoading = TRUE
    /\ error = <<>>
    /\ activeTab = "executive"
    /\ fetchInsightsAt = [run |-> 0, at |-> "unmounted"]

\* The Compare view is not rendered.
CompareViewIdle ==
    /\ comparedCandidates = <<>>
    /\ costEffective = <<>>

PanelsIdle == ExplorerIdle /\ InsightsIdle /\ CompareViewIdle

UiIdle == SkillsIdle /\ AggregatesIdle /\ AppIdle /\ PanelsIdle

Min(a, b) == IF a < b THEN a ELSE b

RECURSIVE SumSeq(_)
SumSeq(s) == IF s = <<>> THEN 0 ELSE Head(s) + SumSeq(Tail(s))

Range(s) == {s[i] : i \in 1..Len(s)}

\* All sequences over S of length 0..n.
SeqUpTo(S, n) == UNION {[1..k -> S] : k \in 0..n}

(***************************************************************************)
(* Scoring engine: calculate_candidate_score                               *)
(***************************************************************************)

MaxOtherSkills == 6
MaxExperiences == 4

high_demand_skills == <<"React", "JavaScript", "Python", "Node.js", "TypeScript", "Java">>

\* Skills outside the high-demand list.
OtherSkill(i) == "skill" \o ToString(i)

EducationLevels == {"None", "Bachelor's", "Master's", "Doctorate"}

SalaryValues == {0, 59999, 60000, 79999, 80000, 99999, 100000}

\* Skill lists: h high-demand skills followed by o other skills.
SkillLists ==
    {[i \in 1..(h + o) |-> IF i <= h THEN high_demand_skills[i] ELSE OtherSkill(i - h)] :
        h \in 0..Len(high_demand_skills), o \in 0..MaxOtherSkills}

IsHighDemand(skill) == skill \in Range(high_demand_skills)

RawCandidates ==
    [name : BOOLEAN,
     email : BOOLEAN,
     skills : SkillLists,
     work_experiences : 0..MaxExperiences,
     education : {<<>>} \cup {<<l>> : l \in EducationLevels},
     annual_salary_expectation : {<<>>} \cup {<<s>> : s \in SalaryValues}]

CountHighDemand(skills) == Cardinality({i \in 1..Len(skills) : IsHighDemand(skills[i])})

skill_score_uncapped(c) ==
    Min(Len(c.skills) * 2, 20) + 5 * CountHighDemand(c.skills)

skill_score(c) ==
    Min(Min(Len(c.skills) * 2, 20) + 5 * CountHighDemand(c.skills), 30)

exp_score_uncapped(c) == c.work_experiences * 8

exp_score(c) == Min(c.work_experiences * 8, 25)

highest_level(c) == IF c.education = <<>> THEN "absent" ELSE c.education[1]

education_score(c) ==
    IF highest_level(c) = "Master's" THEN 20
    ELSE IF highest_level(c) = "Bachelor's" THEN 15
    ELSE 0

salary(c) ==
    IF c.annual_salary_expectation = <<>> THEN 0 ELSE c.annual_salary_expectation[1]

value_score_inclusive(c) ==
    IF salary(c) <= 60000 THEN 15
    ELSE IF salary(c) <= 80000 THEN 10
    ELSE IF salary(c) <= 100000 THEN 5
    ELSE 0

value_score(c) ==
    IF salary(c) < 60000 THEN 15
    ELSE IF salary(c) < 80000 THEN 10
    ELSE IF salary(c) < 100000 THEN 5
    ELSE 0

Bool(b) == IF b THEN 1 ELSE 0

completeness(c) ==
    (Bool(c.name) + Bool(c.email) + Bool(c.skills # <<>>)
        + Bool(c.work_experiences > 0) + Bool(c.education # <<>>)) * 2

calculate_candidate_score(c) ==
    Min(skill_score(c) + exp_score(c) + education_score(c) + value_score(c)
            + completeness(c), 100)

InitScore ==
    /\ candidate \in RawCandidates
    /\ calculated_score = <<>>
    /\ candidates_data = <<>>
    /\ request = <<>>
    /\ response = [status |-> "none"]
    /\ queryPool = <<>>
    /\ filterSpec = <<>>
    /\ queryResult = [status |-> "none"]
    /\ UiIdle

\* for candidate in candidates_data: candidate['calculated_score'] = ...
ScoreCandidate ==
    /\ calculated_score = <<>>
    /\ calculated_score' = <<calculate_candidate_score(candidate)>>
    /\ UNCHANGED <<candidate, teamVars, queryVars, uiVars>>

NextScore == ScoreCandidate

SpecScore == InitScore /\ [][NextScore]_vars

Scored == calculated_score # <<>>

\* C4: for every candidate the composite score lies in 0..100 and each of the
\* five subscores stays within its cap (skills 30, experience 25, education 20,
\* value 15, completeness 10).
ScoreBounds ==
    /\ skill_score(candidate) \in 0..30
    /\ exp_score(candidate) \in 0..25
    /\ education_score(candidate) \in 0..20
    /\ value_score(candidate) \in 0..15
    /\ completeness(candidate) \in 0..10
    /\ Scored => calculated_score[1] \in 0..100

\* A scored candidate whose raw skill points exceed the cap of 30, whose
\* experience points are cut to 25, and who reaches the maximum of 100.
ScoreBoundsWitness ==
    /\ Scored
    /\ skill_score_uncapped(candidate) > 30
    /\ candidate.work_experiences * 8 > 25
    /\ calculated_score[1] = 100

\* C10: the education subscore is 20 for Doctorate and Master's, 15 for
\* Bachelor's and 0 for every other level.
EducationTiersAsClaimed ==
    Scored =>
        education_score(candidate) =
            IF highest_level(candidate) \in {"Doctorate", "Master's"} THEN 20
            ELSE IF highest_level(candidate) = "Bachelor's" THEN 15
            ELSE 0

\* C11: the value subscore is 15 when the salary expectation is absent, zero
\* or below 60000, 10 from 60000 up to but not including 80000, 5 from 80000 up
\* to but not including 100000, and 0 from 100000 upward; a candidate without a
\* salary expectation is scored like any other.
ValueBrackets ==
    LET expectation == candidate.annual_salary_expectation
        claimed ==
            IF expectation = <<>> THEN 15
            ELSE IF expectation[1] = 0 \/ expectation[1] < 60000 THEN 15
            ELSE IF expectation[1] >= 60000 /\ expectation[1] < 80000 THEN 10
            ELSE IF expectation[1] >= 80000 /\ expectation[1] < 100000 THEN 5
            ELSE 0
    IN  /\ value_score(candidate) = claimed
        /\ ENABLED ScoreCandidate \/ Scored
        /\ Scored => calculated_score[1] \in 0..100

\* A scored candidate without a salary expectation, given the 15 value points.
ValueBracketsWitness ==
    /\ Scored
    /\ candidate.annual_salary_expectation = <<>>
    /\ value_score(candidate) = 15
    /\ calculated_score[1] >= 15

\* The same candidate with one more work experience.
OneMoreExperience == [candidate EXCEPT !.work_experiences = @ + 1]

\* C12: raising the number of work experiences from n to n+1, all other fields
\* fixed, never decreases the experience subscore, which is min(n*8, 25) and
\* never exceeds 25.
ExperienceMonotone ==
    LET n == candidate.work_experiences
    IN  /\ exp_score(candidate) = (IF n * 8 <= 25 THEN n * 8 ELSE 25)
        /\ exp_score(OneMoreExperience) >= exp_score(candidate)
        /\ exp_score(candidate) <= 25
        /\ exp_score(OneMoreExperience) <= 25

\* A scored candidate whose next work experience crosses the cap: 24 points at
\* three experiences, 25 at four.
ExperienceMonotoneWitness ==
    /\ Scored
    /\ exp_score(candidate) = 24
    /\ exp_score(OneMoreExperience) = 25

(***************************************************************************)
(* Team composition optimizer: optimize_team                               *)
(***************************************************************************)

MaxPool == 4

TEAM_SIZE == 5
WINDOW == 50
DIVERSITY_FLOOR == 3

\* A location string, as its comma-separated parts.
Locations == {<<"Brazil", "Sao Paulo">>, <<"India">>, <<"USA", "Austin">>}

\* Skills with a score: a strong and an average React candidate, an average
\* Java candidate.
Profiles == {<<{"React"}, 90>>, <<{"React"}, 80>>, <<{"Java"}, 80>>}

\* Pools that vary location, skills and score (equal salaries).
DiversityCandidates ==
    {[location |-> l, skills |-> pr[1], calculated_score |-> pr[2], salary |-> 50000] :
        l \in Locations, pr \in Profiles}

\* Pools that vary score and salary.
RankedCandidates ==
    [location : {<<"Brazil", "Sao Paulo">>, <<"Brazil", "Rio">>},
     skills : {{"React"}},
     calculated_score : {80, 90},
     salary : {40000, 70000}]

\* Pools of three candidates with skills [React, Python], [React], [Java] and
\* scores 90, 80, 70, at any locations.
ScenarioPools ==
    {<<[location |-> l[1], skills |-> {"React", "Python"}, calculated_score |-> 90,
        salary |-> 50000],
       [location |-> l[2], skills |-> {"React"}, calculated_score |-> 80,
        salary |-> 50000],
       [location |-> l[3], skills |-> {"Java"}, calculated_score |-> 70,
        salary |-> 50000]>> : l \in [1..3 -> Locations]}

\* The loaded pool: every candidate carries its position as id.
WithIds(pool) ==
    [i \in 1..Len(pool) |->
        [id |-> i, location |-> pool[i].location, skills |-> pool[i].skills,
         calculated_score |-> pool[i].calculated_score, salary |-> pool[i].salary]]

Pools ==
    {WithIds(p) : p \in SeqUpTo(DiversityCandidates, MaxPool)
                        \cup SeqUpTo(RankedCandidates, MaxPool)
                        \cup ScenarioPools}

TargetSizes == {2, 4, TEAM_SIZE}

Budgets == {<<>>, <<100000>>}

Requests == [targetSize : TargetSizes, budget : Budgets]

\* sorted(candidates_data, key=calculated_score, reverse=True): a stable sort,
\* candidates of equal score keep their pool order.
Precedes(pool, i, j) ==
    \/ pool[i].calculated_score > pool[j].calculated_score
    \/ pool[i].calculated_score = pool[j].calculated_score /\ i < j

sorted_candidates(pool) ==
    [r \in 1..Len(pool) |->
        pool[CHOOSE i \in 1..Len(pool) :
                Cardinality({j \in 1..Len(pool) : Precedes(pool, j, i)}) = r - 1]]

\* sorted_candidates[:50]
Window(pool) == SubSeq(sorted_candidates(pool), 1, Min(WINDOW, Len(pool)))

\* candidate.get('location', '').split(',')[0]
location_of(c) == Head(c.location)

total_salary(team) == SumSeq([i \in 1..Len(team) |-> team[i].salary])

EmptyScan == [selected_team |-> <<>>, used_locations |-> {}, skill_coverage |-> {}]

\* The location criterion without the floor of three locations.
location_diverse_no_floor(st, c) == location_of(c) \notin st.used_locations

location_diverse(st, c) ==
    \/ location_of(c) \notin st.used_locations
    \/ Cardinality(st.used_locations) < DIVERSITY_FLOOR

skill_diverse(st, c) == c.skills \ st.skill_coverage # {}

\* The admission rule read with AND binding tighter than OR.
admits_unbounded_skill(st, c, targetSize) ==
    \/ Len(st.selected_team) < targetSize /\ location_diverse(st, c)
    \/ skill_diverse(st, c)

\* The conjunctive admission rule: a new location and a new skill.
admits_conjunctive(st, c, targetSize) ==
    (location_diverse(st, c) /\ skill_diverse(st, c))
        /\ Len(st.selected_team) < targetSize

admits(st, c, targetSize) ==
    (location_diverse(st, c) \/ skill_diverse(st, c))
        /\ Len(st.selected_team) < targetSize

\* A budget check that forgets the salary of the candidate being added.
within_budget_spent_only(st, c, budget) ==
    budget = <<>> \/ total_salary(st.selected_team) <= budget[1]

within_budget(st, c, budget) ==
    budget = <<>> \/ total_salary(st.selected_team) + c.salary <= budget[1]

\* One iteration of the loop over the window.
visit(st, c, req) ==
    IF admits(st, c, req.targetSize) /\ within_budget(st, c, req.budget)
    THEN [selected_team |-> Append(st.selected_team, c),
          used_locations |-> st.used_locations \cup {location_of(c)},
          skill_coverage |-> st.skill_coverage \cup c.skills]
    ELSE st

RECURSIVE scan(_, _, _)
scan(st, window, req) ==
    IF window = <<>> THEN st
    ELSE scan(visit(st, Head(window), req), Tail(window), req)

NoMetrics == [locations |-> {}, total_skills |-> 0, avg_score |-> <<0, 1>>]

\* The endpoint's result; avg_score is the exact quotient <<sum, count>>.
\* Dividing by len(selected_team) = 0 raises ZeroDivisionError.
optimize_team(pool, req) ==
    LET st == scan(EmptyScan, Window(pool), req)
        team == st.selected_team
    IN  IF Len(team) = 0
        THEN [status |-> "ZeroDivisionError", team |-> <<>>,
              diversity_metrics |-> NoMetrics]
        ELSE [status |-> "ok", team |-> team,
              diversity_metrics |->
                  [locations |-> st.used_locations,
                   total_skills |-> Cardinality(st.skill_coverage),
                   avg_score |->
                       <<SumSeq([i \in 1..Len(team) |-> team[i].calculated_score]),
                         Len(team)>>]]

InitTeam ==
    /\ candidates_data \in Pools
    /\ request = <<>>
    /\ response = [status |-> "none"]
    /\ candidate = <<>>
    /\ calculated_score = <<>>
    /\ queryPool = <<>>
    /\ filterSpec = <<>>
    /\ queryResult = [status |-> "none"]
    /\ UiIdle

\* POST /api/team/optimize
OptimizeTeam ==
    /\ response.status = "none"
    /\ \E req \in Requests :
        /\ request' = <<req>>
        /\ response' = optimize_team(candidates_data, req)
    /\ UNCHANGED <<candidates_data, scoreVars, queryVars, uiVars>>

NextTeam == OptimizeTeam

SpecTeam == InitTeam /\ [][NextTeam]_vars

Returned == response.status # "none"

TargetSize == request[1].targetSize

Budget == request[1].budget

TeamIds == [k \in 1..Len(response.team) |-> response.team[k].id]

InTeam(c) == \E k \in 1..Len(response.team) : response.team[k].id = c.id

\* The scan state made of the candidates ranked above window position r that
\* satisfy keep.
ScanOf(W, r, keep(_)) ==
    LET before == SelectSeq(SubSeq(W, 1, r - 1), keep)
    IN  [selected_team |-> before,
         used_locations |-> {location_of(before[k]) : k \in 1..Len(before)},
         skill_coverage |-> UNION {before[k].skills : k \in 1..Len(before)}]

AllAbove(c) == TRUE

TopFitsBudget ==
    \/ Budget = <<>>
    \/ total_salary(SubSeq(Window(candidates_data), 1, TargetSize)) <= Budget[1]

TopIsDiverse ==
    LET W == Window(candidates_data)
    IN  \A r \in 1..TargetSize :
            LET st == ScanOf(W, r, AllAbove)
            IN  \/ location_of(W[r]) \notin st.used_locations
                \/ Cardinality(st.used_locations) < DIVERSITY_FLOOR
                \/ W[r].skills \ st.skill_coverage # {}

IsScenario ==
    /\ Len(candidates_data) = 3
    /\ candidates_data[1].skills = {"React", "Python"}
    /\ candidates_data[2].skills = {"React"}
    /\ candidates_data[3].skills = {"Java"}
    /\ candidates_data[1].calculated_score = 90
    /\ candidates_data[2].calculated_score = 80
    /\ candidates_data[3].calculated_score = 70

ScenarioRun == Returned /\ IsScenario /\ TargetSize = 2 /\ Budget = <<>>

SmallPoolReturnsTeam ==
    (Returned /\ Len(candidates_data) < TargetSize)
        => /\ response.status = "ok"
           /\ Len(response.team) < TargetSize
           /\ response.diversity_metrics.avg_score[2] = Len(response.team)
           /\ candidates_data = <<>> => response.team = <<>>

MaxQueryPool == 3
MaxLimit == 2
MaxOffset == 1

Upper == {"A", "B", "I", "N", "R"}

LowerChar(ch) ==
    IF ch \in Upper
    THEN CASE ch = "A" -> "a" [] ch = "B" -> "b" [] ch = "I" -> "i"
           [] ch = "N" -> "n" [] ch = "R" -> "r"
    ELSE ch

Lower(text) == [i \in 1..Len(text) |-> LowerChar(text[i])]

\* Case-insensitive substring containment.
Contains(text, q) ==
    \E i \in 1..(Len(text) - Len(q) + 1) :
        SubSeq(Lower(text), i, i + Len(q) - 1) = Lower(q)

Brazil == <<"B", "R">>
India == <<"I", "N">>

BaseCandidate ==
    [name |-> <<"A", "n", "a">>, country |-> Brazil, city |-> <<"R", "i", "o">>,
     skills |-> {<<"j", "s">>}, overall_score |-> 85, salary_full_time |-> 50000,
     primary_skill_category |-> "frontend", experience_level |-> "Senior",
     has_big_tech |-> TRUE]

\* The base candidate with either score in either country, and one candidate
\* that differs from it in every other field.
QueryCandidates ==
    {[BaseCandidate EXCEPT !.overall_score = sc, !.country = co] :
        sc \in {60, 85}, co \in {Brazil, India}}
    \cup {[BaseCandidate EXCEPT !.name = <<"B", "o">>, !.skills = {<<"g", "o">>},
                                !.city = <<"b", "r", "n", "o">>,
                                !.salary_full_time = 90000,
                                !.primary_skill_category = "backend",
                                !.experience_level = "Junior",
                                !.has_big_tech = FALSE]}

QueryPools ==
    {[i \in 1..Len(p) |-> [id |-> i, c |-> p[i]]] :
        p \in SeqUpTo(QueryCandidates, MaxQueryPool)}

\* The filter state a fresh candidate explorer holds: no predicate restricts.
DefaultFilter ==
    [min_score |-> 0, max_score |-> 100, min_salary |-> 0, max_salary |-> 999999,
     country |-> <<>>, skill_category |-> "", experience_level |-> "",
     has_big_tech |-> <<>>, search |-> <<>>]

OnePredicate ==
    {[DefaultFilter EXCEPT !.min_score = 80],
     [DefaultFilter EXCEPT !.max_score = 70],
     [DefaultFilter EXCEPT !.min_salary = 60000],
     [DefaultFilter EXCEPT !.max_salary = 60000],
     [DefaultFilter EXCEPT !.country = Brazil],
     [DefaultFilter EXCEPT !.skill_category = "frontend"],
     [DefaultFilter EXCEPT !.experience_level = "Senior"],
     [DefaultFilter EXCEPT !.has_big_tech = <<TRUE>>],
     [DefaultFilter EXCEPT !.has_big_tech = <<FALSE>>],
     [DefaultFilter EXCEPT !.search = <<"A", "N">>],
     [DefaultFilter EXCEPT !.search = <<"b", "r">>]}

FilterFields ==
    {"min_score", "max_score", "min_salary", "max_salary", "country",
     "skill_category", "experience_level", "has_big_tech", "search"}

\* f where it departs from the default, g elsewhere.
Combine(f, g) ==
    [k \in FilterFields |-> IF f[k] # DefaultFilter[k] THEN f[k] ELSE g[k]]

\* Filters that set no predicate, one, or two.
Predicates ==
    {Combine(f, g) : f \in OnePredicate \cup {DefaultFilter},
                     g \in OnePredicate \cup {DefaultFilter}}

FilterSpecs ==
    {[p |-> p, limit |-> l, offset |-> o] :
        p \in Predicates, l \in (-1)..MaxLimit, o \in 0..MaxOffset}

\* The predicates with the country match left out.
passes_predicates_without_country(c, p) ==
    /\ c.overall_score >= p.min_score
    /\ c.overall_score <= p.max_score
    /\ c.salary_full_time >= p.min_salary
    /\ c.salary_full_time <= p.max_salary
    /\ p.skill_category = "" \/ c.primary_skill_category = p.skill_category
    /\ p.experience_level = "" \/ c.experience_level = p.experience_level
    /\ p.has_big_tech = <<>> \/ c.has_big_tech = p.has_big_tech[1]

\* The range and exact-match predicates, all of which must hold.
passes_predicates(c, p) ==
    /\ c.overall_score >= p.min_score
    /\ c.overall_score <= p.max_score
    /\ c.salary_full_time >= p.min_salary
    /\ c.salary_full_time <= p.max_salary
    /\ p.country = <<>> \/ c.country = p.country
    /\ p.skill_category = "" \/ c.primary_skill_category = p.skill_category
    /\ p.experience_level = "" \/ c.experience_level = p.experience_level
    /\ p.has_big_tech = <<>> \/ c.has_big_tech = p.has_big_tech[1]

\* The free-text predicate: the query occurs in the name, a skill token, the
\* country or the city.
passes_search(c, p) ==
    \/ p.search = <<>>
    \/ Contains(c.name, p.search)
    \/ \E sk \in c.skills : Contains(sk, p.search)
    \/ Contains(c.country, p.search)
    \/ Contains(c.city, p.search)

satisfies(e, p) == passes_predicates(e.c, p) /\ passes_search(e.c, p)

\* Stable sort by overall_score, highest first.
ScorePrecedes(s, i, j) ==
    \/ s[i].c.overall_score > s[j].c.overall_score
    \/ s[i].c.overall_score = s[j].c.overall_score /\ i < j

\* A descending sort that leaves equal scores in reverse input order.
sort_by_score_reversing_ties(s) ==
    [r \in 1..Len(s) |->
        s[CHOOSE i \in 1..Len(s) :
              Cardinality({j \in 1..Len(s) :
                  \/ s[j].c.overall_score > s[i].c.overall_score
                  \/ s[j].c.overall_score = s[i].c.overall_score /\ j > i}) = r - 1]]

sort_by_score(s) ==
    [r \in 1..Len(s) |->
        s[CHOOSE i \in 1..Len(s) :
              Cardinality({j \in 1..Len(s) : ScorePrecedes(s, j, i)}) = r - 1]]

\* A page that starts at offset and is never cut at limit.
paginate_ignoring_limit(s, offset, limit) == SubSeq(s, offset + 1, Len(s))

\* The slice [offset, offset + limit) counted from 0.
paginate(s, offset, limit) == SubSeq(s, offset + 1, Min(Len(s), offset + limit))

\* A query that also rejects a limit of 0.
query_rejecting_zero_limit(pool, fs) ==
    IF fs.limit <= 0
    THEN [status |-> "InvalidQueryError", matched |-> <<>>, totalMatched |-> 0,
          returned |-> 0]
    ELSE LET all == sort_by_score(SelectSeq(pool, LAMBDA e : satisfies(e, fs.p)))
             page == paginate(all, fs.offset, fs.limit)
         IN  [status |-> "ok", matched |-> page,
              totalMatched |-> Len(all),
              returned |-> Len(page)]

query(pool, fs) ==
    IF fs.limit < 0
    THEN [status |-> "InvalidQueryError", matched |-> <<>>, totalMatched |-> 0,
          returned |-> 0]
    ELSE LET all == sort_by_score(SelectSeq(pool, LAMBDA e : satisfies(e, fs.p)))
             page == paginate(all, fs.offset, fs.limit)
         IN  [status |-> "ok", matched |-> page,
              totalMatched |-> Len(all),
              returned |-> Len(page)]

InitQuery ==
    /\ queryPool \in QueryPools
    /\ filterSpec = <<>>
    /\ queryResult = [status |-> "none"]
    /\ candidate = <<>>
    /\ calculated_score = <<>>
    /\ candidates_data = <<>>
    /\ request = <<>>
    /\ response = [status |-> "none"]
    /\ UiIdle

\* One call of query on the pool.
Query ==
    /\ queryResult.status = "none"
    /\ \E fs \in FilterSpecs :
        /\ filterSpec' = <<fs>>
        /\ queryResult' = query(queryPool, fs)
    /\ UNCHANGED <<queryPool, scoreVars, teamVars, uiVars>>

NextQuery == Query

SpecQuery == InitQuery /\ [][NextQuery]_vars

QueryDone == queryResult.status = "ok"

TheFilter == filterSpec[1]

\* What the FilterSpec asks of a candidate: the score and salary lie in their
\* ranges, each exact-match field that is set agrees, and the search text, if
\* any, occurs in the name, a skill, the country or the city.
MeetsFilter(c, p) ==
    /\ p.min_score <= c.overall_score /\ c.overall_score <= p.max_score
    /\ p.min_salary <= c.salary_full_time /\ c.salary_full_time <= p.max_salary
    /\ p.country # <<>> => c.country = p.country
    /\ p.skill_category # "" => c.primary_skill_category = p.skill_category
    /\ p.experience_level # "" => c.experience_level = p.experience_level
    /\ p.has_big_tech # <<>> => c.has_big_tech = p.has_big_tech[1]
    /\ p.search # <<>> =>
           \E text \in {c.name, c.country, c.city} \cup c.skills :
               Contains(text, p.search)

Satisfying == {i \in 1..Len(queryPool) : MeetsFilter(queryPool[i].c, TheFilter.p)}

MatchedIds == {queryResult.matched[k].id : k \in 1..Len(queryResult.matched)}

\* C5 as stated: a candidate of the pool is in the matched result if and only
\* if it satisfies every predicate of the FilterSpec.
MatchedIsExactlySatisfying ==
    QueryDone => MatchedIds = Satisfying

\* C5 amended: every candidate in the matched result satisfies every predicate
\* of the FilterSpec; totalMatched counts exactly the candidates that do; and
\* when the page holds totalMatched candidates the matched result is exactly
\* the candidates that satisfy every predicate.
MatchedSatisfiesAndPageCompletes ==
    QueryDone =>
        /\ MatchedIds \subseteq Satisfying
        /\ queryResult.totalMatched = Cardinality(Satisfying)
        /\ Len(queryResult.matched) = queryResult.totalMatched
               => MatchedIds = Satisfying

\* min_score 80 and country Brazil against two Brazilian candidates scoring 85
\* and 60: matched is the 85-scorer, totalMatched is 1.
FilterScenarioWitness ==
    /\ QueryDone
    /\ TheFilter.p = [DefaultFilter EXCEPT !.min_score = 80, !.country = Brazil]
    /\ Len(queryPool) = 2
    /\ \A i \in 1..2 : queryPool[i].c.country = Brazil
    /\ queryPool[1].c.overall_score = 85
    /\ queryPool[2].c.overall_score = 60
    /\ TheFilter.offset = 0
    /\ MatchedIds = {1}
    /\ queryResult.totalMatched = 1

\* C6: totalMatched is the number of candidates of the pool that satisfy the
\* FilterSpec, whatever offset and limit are; returned is the length of the
\* returned page; returned is at most limit.
PaginationCounts ==
    QueryDone =>
        /\ queryResult.totalMatched = Cardinality(Satisfying)
        /\ queryResult.returned = Len(queryResult.matched)
        /\ queryResult.returned <= TheFilter.limit

\* A page cut short by the limit: more candidates match than are returned.
PaginationWitness ==
    /\ QueryDone
    /\ TheFilter.offset = 1
    /\ TheFilter.limit = 1
    /\ queryResult.totalMatched = 3
    /\ queryResult.returned = 1

\* The candidates of the pool that satisfy the FilterSpec and come before
\* candidate i in the result order: a higher score, or the same score and an
\* earlier place in the pool.
Ahead(i) ==
    {j \in Satisfying :
        \/ queryPool[j].c.overall_score > queryPool[i].c.overall_score
        \/ queryPool[j].c.overall_score = queryPool[i].c.overall_score /\ j < i}

\* Position of a satisfying candidate in the full ordered result, from 0.
PlaceOf(i) == Cardinality(Ahead(i))

\* C13: the returned page is the slice [offset, offset + limit) of the
\* satisfying candidates ordered by overall_score descending, equal scores in
\* pool order; no candidate of a later page outscores one of the page, and none
\* of the page outscores one of an earlier page.
PageIsSliceOfStableOrder ==
    QueryDone =>
        LET offset == TheFilter.offset
            limit == TheFilter.limit
            onPage == {i \in Satisfying : offset <= PlaceOf(i) /\ PlaceOf(i) < offset + limit}
        IN  /\ Len(queryResult.matched) = Cardinality(onPage)
            /\ \A k \in 1..Len(queryResult.matched) :
                   /\ queryResult.matched[k].id \in onPage
                   /\ PlaceOf(queryResult.matched[k].id) = offset + k - 1
                   /\ queryResult.matched[k] = queryPool[queryResult.matched[k].id]
            /\ \A i \in Satisfying, k \in 1..Len(queryResult.matched) :
                   /\ PlaceOf(i) >= offset + limit =>
                          queryPool[i].c.overall_score <= queryResult.matched[k].c.overall_score
                   /\ PlaceOf(i) < offset =>
                          queryPool[i].c.overall_score >= queryResult.matched[k].c.overall_score

\* Scores 60, 85, 85 in pool order, no predicate set, offset 1 and limit 1: the
\* page is the second of the two 85-scorers, the third candidate of the pool.
StableOrderWitness ==
    /\ QueryDone
    /\ TheFilter.p = DefaultFilter
    /\ TheFilter.offset = 1
    /\ TheFilter.limit = 1
    /\ Len(queryPool) = 3
    /\ queryPool[1].c.overall_score = 60
    /\ queryPool[2].c.overall_score = 85
    /\ queryPool[3].c.overall_score = 85
    /\ queryPool[2].c # queryPool[3].c
    /\ Len(queryResult.matched) = 1
    /\ queryResult.matched[1].id = 3

QueryCalled == queryResult.status # "none"

\* C14: a query with limit 0, and a query on an empty pool with a limit of 0 or
\* more, return successfully with an empty matched list and returned = 0; a
\* negative limit is an InvalidQueryError.
EmptyResultIsNotAnError ==
    QueryCalled =>
        /\ TheFilter.limit >= 0 /\ (TheFilter.limit = 0 \/ queryPool = <<>>) =>
               /\ queryResult.status = "ok"
               /\ queryResult.matched = <<>>
               /\ queryResult.returned = 0
        /\ TheFilter.limit < 0 <=> queryResult.status = "InvalidQueryError"

\* A query with limit 0 over a pool of three candidates that all satisfy the
\* FilterSpec: nothing is returned, three are counted.
ZeroLimitWitness ==
    /\ QueryCalled
    /\ TheFilter.limit = 0
    /\ Len(queryPool) = 3
    /\ queryResult.status = "ok"
    /\ queryResult.totalMatched = 3
    /\ queryResult.matched = <<>>

(***************************************************************************)
(* Skill parsing: parseSkills (Compare) and calculateSkillDiversity        *)
(* (TeamChemistry).  A string is the sequence of its characters.           *)
(***************************************************************************)

MaxSkills == 2

SkillNames == {<<"R">>, <<"r">>, <<"g", "o">>}

NamedSkillLists == SeqUpTo(SkillNames, MaxSkills)

RECURSIVE Join(_, _)
Join(parts, sep) ==
    IF parts = <<>> THEN <<>>
    ELSE IF Len(parts) = 1 THEN parts[1]
    ELSE parts[1] \o sep \o Join(Tail(parts), sep)

Quoted(list, quote) == [i \in 1..Len(list) |-> <<quote>> \o list[i] \o <<quote>>]

\* The three ways a list of skills is written into a string.
json_dumps(list) == <<"[">> \o Join(Quoted(list, "\""), <<",", " ">>) \o <<"]">>
python_repr(list) == <<"[">> \o Join(Quoted(list, "'"), <<",", " ">>) \o <<"]">>
comma_joined(list) == Join(list, <<",", " ">>)

StringValue(t) == [kind |-> "string", items |-> <<>>, text |-> t]
ArrayValue(list) == [kind |-> "list", items |-> list, text |-> <<>>]

\* The values original_skills takes: absent, an empty or blank string, a native
\* list, or a string holding a list in one of the three notations.
RawSkills ==
    {Undefined, StringValue(<<>>), StringValue(<<" ">>)}
        \cup {ArrayValue(l) : l \in NamedSkillLists}
        \cup {StringValue(json_dumps(l)) : l \in NamedSkillLists}
        \cup {StringValue(python_repr(l)) : l \in NamedSkillLists}
        \cup {StringValue(comma_joined(l)) : l \in NamedSkillLists}

RECURSIVE trimStart(_)
trimStart(t) == IF t # <<>> /\ Head(t) = " " THEN trimStart(Tail(t)) ELSE t

RECURSIVE trimEnd(_)
trimEnd(t) ==
    IF t # <<>> /\ t[Len(t)] = " " THEN trimEnd(SubSeq(t, 1, Len(t) - 1)) ELSE t

trim(t) == trimEnd(trimStart(t))

startsWith(t, ch) == t # <<>> /\ Head(t) = ch

endsWith(t, ch) == t # <<>> /\ t[Len(t)] = ch

\* String.prototype.split on a one-character separator.
RECURSIVE split(_, _)
split(t, sep) ==
    IF \E i \in 1..Len(t) : t[i] = sep
    THEN LET i == CHOOSE k \in 1..Len(t) :
                      t[k] = sep /\ \A m \in 1..(k - 1) : t[m] # sep
         IN  <<SubSeq(t, 1, i - 1)>> \o split(SubSeq(t, i + 1, Len(t)), sep)
    ELSE <<t>>

IsStringLiteral(t) ==
    /\ Len(t) >= 2
    /\ t[1] = "\"" /\ t[Len(t)] = "\""
    /\ \A i \in 2..(Len(t) - 1) : t[i] # "\""

\* JSON.parse on the texts of RawSkills: an array of string literals parses to
\* its elements, every other text is a SyntaxError (ok = FALSE).
JSON_parse(t) ==
    LET body == trim(t)
        inner == SubSeq(body, 2, Len(body) - 1)
        parts == split(inner, ",")
    IN  IF ~(Len(body) >= 2 /\ startsWith(body, "[") /\ endsWith(body, "]"))
        THEN [ok |-> FALSE, value |-> <<>>]
        ELSE IF trim(inner) = <<>> THEN [ok |-> TRUE, value |-> <<>>]
        ELSE IF \A k \in 1..Len(parts) : IsStringLiteral(trim(parts[k]))
        THEN [ok |-> TRUE,
              value |-> [k \in 1..Len(parts) |->
                            SubSeq(trim(parts[k]), 2, Len(trim(parts[k])) - 1)]]
        ELSE [ok |-> FALSE, value |-> <<>>]

\* split(',').map(s => s.trim()).filter(Boolean)
comma_tokens(t) ==
    LET parts == split(t, ",")
    IN  SelectSeq([k \in 1..Len(parts) |-> trim(parts[k])], LAMBDA tok : tok # <<>>)

parseSkills(skillsString) ==
    IF skillsString.kind = "string" /\ trim(skillsString.text) # <<>>
    THEN IF startsWith(skillsString.text, "[") /\ endsWith(skillsString.text, "]")
         THEN IF JSON_parse(skillsString.text).ok
              THEN JSON_parse(skillsString.text).value
              ELSE <<>>
         ELSE comma_tokens(skillsString.text)
    ELSE <<>>

\* The lower-cased skills one member adds to allSkills.
member_skills(original) ==
    IF original.kind = "list"
    THEN {Lower(original.items[i]) : i \in 1..Len(original.items)}
    ELSE IF original.kind = "string" /\ original.text # <<>>
            /\ JSON_parse(original.text).ok
    THEN LET skills == JSON_parse(original.text).value
         IN  {Lower(skills[i]) : i \in 1..Len(skills)}
    ELSE {}

calculateSkillDiversity(members) ==
    IF members = <<>> THEN 0
    ELSE Min(100, 5 * Cardinality(UNION {member_skills(members[i].original_skills) :
                                            i \in 1..Len(members)}))

coreVars == <<scoreVars, teamVars, queryVars>>

\* Nothing is loaded, scored or queried.
CoreIdle ==
    /\ candidate = <<>>
    /\ calculated_score = <<>>
    /\ candidates_data = <<>>
    /\ request = <<>>
    /\ response = [status |-> "none"]
    /\ queryPool = <<>>
    /\ filterSpec = <<>>
    /\ queryResult = [status |-> "none"]

InitSkills ==
    /\ original_skills \in RawSkills
    /\ parsedSkills = <<>>
    /\ reparsedSkills = <<>>
    /\ skillDiversity = <<>>
    /\ CoreIdle
    /\ PanelsIdle
    /\ AggregatesIdle
    /\ AppIdle

\* Compare renders the candidate's skills: parseSkills(candidate.original_skills).
ParseSkills ==
    /\ parsedSkills = <<>>
    /\ parsedSkills' = <<parseSkills(original_skills)>>
    /\ UNCHANGED <<original_skills, reparsedSkills, skillDiversity, coreVars, panelVars, aggVars, appVars>>

\* parseSkills applied to the list it returned.
ReparseSkills ==
    /\ parsedSkills # <<>>
    /\ reparsedSkills = <<>>
    /\ reparsedSkills' = <<parseSkills(ArrayValue(parsedSkills[1]))>>
    /\ UNCHANGED <<original_skills, parsedSkills, skillDiversity, coreVars, panelVars, aggVars, appVars>>

\* TeamChemistry scores a team made of the candidate.
CalculateSkillDiversity ==
    /\ skillDiversity = <<>>
    /\ skillDiversity' =
           <<calculateSkillDiversity(<<[original_skills |-> original_skills]>>)>>
    /\ UNCHANGED <<original_skills, parsedSkills, reparsedSkills, coreVars, panelVars, aggVars, appVars>>

NextSkills == ParseSkills \/ ReparseSkills \/ CalculateSkillDiversity

SpecSkills == InitSkills /\ [][NextSkills]_vars

\* C15: parsing a raw skills field loses no parsable input: a native list and a
\* JSON-encoded list give the list, a comma-separated string gives its items, a
\* bracketed string that is not JSON is split on commas, and the result is
\* empty only when the input holds no skill.
SkillsParsedAsClaimed ==
    \A list \in NamedSkillLists :
        LET lowered == {Lower(list[i]) : i \in 1..Len(list)}
            parsable == {ArrayValue(list), StringValue(json_dumps(list)),
                         StringValue(comma_joined(list))}
        IN  /\ parsedSkills # <<>> /\ original_skills \in parsable
                   => parsedSkills[1] = list
            /\ parsedSkills # <<>> /\ list # <<>>
                 /\ original_skills = StringValue(python_repr(list))
                   => parsedSkills[1] # <<>>
            /\ skillDiversity # <<>> /\ original_skills \in parsable
                   => skillDiversity[1] = Min(100, 5 * Cardinality(lowered))

\* C16: parsing an already parsed skill list again gives the same skills and
\* the same total_skills (the number of distinct skills).
ReparseIsNoOp ==
    reparsedSkills # <<>> =>
        /\ reparsedSkills[1] = parsedSkills[1]
        /\ Cardinality(Range(reparsedSkills[1])) = Cardinality(Range(parsedSkills[1]))

(***************************************************************************)
(* Aggregates over a candidate set or team: analyzeChemistry               *)
(* (TeamChemistryAnalyzer), teamStats (TeamBuilder), the average cards of  *)
(* AnalyticsDashboard, and the talent scarcity shown by InsightsPanel.     *)
(***************************************************************************)

MaxTeam == 2

AggCandidates ==
    {[overall_score |-> sc, salary_full_time |-> sal, country |-> co,
      timezone_group |-> IF co = Brazil THEN "Americas" ELSE "Asia",
      skills |-> l, skills_summary |-> comma_joined(l)] :
        sc \in {79, 80}, sal \in {0, 50000}, co \in {Brazil, India},
        l \in {<<>>, << <<"R">> >>}}

Teams == SeqUpTo(AggCandidates, MaxTeam)

\* A JavaScript number that came out of a division, as numerator and
\* denominator; NaN and Infinity are values of their own.
Number(n, d) == [kind |-> "number", num |-> n, den |-> d]
NaN == [kind |-> "NaN", num |-> 0, den |-> 0]
Infinity == [kind |-> "Infinity", num |-> 0, den |-> 0]

\* a / b for a >= 0 and b >= 0: nothing is thrown when b is 0.
divide(a, b) == IF b # 0 THEN Number(a, b) ELSE IF a = 0 THEN NaN ELSE Infinity

\* x.toFixed(1): x rounded to tenths; NaN stays NaN.
toFixed1(x) ==
    IF x.kind = "number" THEN Number((20 * x.num + x.den) \div (2 * x.den), 10) ELSE x

\* Math.round(x)
round(x) ==
    IF x.kind = "number" THEN Number((2 * x.num + x.den) \div (2 * x.den), 1) ELSE x

Countries(members) == {members[i].country : i \in 1..Len(members)}

ScoreSum(members) == SumSeq([i \in 1..Len(members) |-> members[i].overall_score])

SalarySum(members) == SumSeq([i \in 1..Len(members) |-> members[i].salary_full_time])

analyzeChemistry(members) ==
    [diversity |-> Cardinality(Countries(members)),
     skillOverlap |-> SumSeq([i \in 1..Len(members) |-> Len(members[i].skills)]),
     averageQuality |-> divide(ScoreSum(members), Len(members)),
     timezoneSpread |->
         Cardinality({members[i].timezone_group : i \in 1..Len(members)})]

TeamBuilder_teamStats(members) ==
    [avgScore |-> IF Len(members) > 0
                  THEN toFixed1(divide(ScoreSum(members), Len(members)))
                  ELSE Number(0, 1),
     totalSalary |-> SalarySum(members),
     uniqueSkills |->
         Cardinality(UNION {Range(split(members[i].skills_summary, ",")) :
                                i \in 1..Len(members)}),
     countries |-> Cardinality(Countries(members))]

salary_score_data(candidates) ==
    SelectSeq(candidates, LAMBDA c : c.salary_full_time > 0 /\ c.overall_score > 0)

\* The Average Salary and Average Score cards.
average_cards(candidates) ==
    LET data == salary_score_data(candidates)
    IN  [averageSalary |-> IF Len(data) > 0
                           THEN round(divide(SalarySum(data), Len(data)))
                           ELSE Number(0, 1),
         averageScore |-> IF Len(data) > 0
                          THEN toFixed1(divide(ScoreSum(data), Len(data)))
                          ELSE Number(0, 1)]

Max(a, b) == IF a > b THEN a ELSE b

ScarcitySkills == {<<"R">>, <<"g", "o">>}

HasSkill(c, skill) == \E i \in 1..Len(c.skills) : c.skills[i] = skill

\* The ratio of quality candidates, not inverted.
scarcity_score_uninverted(quality, total) == Number(quality, Max(total, 1))

\* 1 - quality / max(total, 1)
scarcity_score(quality, total) == Number(Max(total, 1) - quality, Max(total, 1))

scarcity(candidates, skill) ==
    LET holders == SelectSeq(candidates, LAMBDA c : HasSkill(c, skill))
        quality == SelectSeq(holders, LAMBDA c : c.overall_score >= 80)
    IN  [total_candidates |-> Len(holders),
         quality_candidates |-> Len(quality),
         scarcity_score |-> scarcity_score(Len(quality), Len(holders))]

InitAggregates ==
    /\ teamMembers \in Teams
    /\ chemistry = <<>>
    /\ teamStats = <<>>
    /\ analyticsCards = <<>>
    /\ talent_scarcity = <<>>
    /\ CoreIdle
    /\ PanelsIdle
    /\ SkillsIdle
    /\ AppIdle

\* TeamChemistryAnalyzer renders: const chemistry = analyzeChemistry().
AnalyzeChemistry ==
    /\ chemistry = <<>>
    /\ chemistry' = <<analyzeChemistry(teamMembers)>>
    /\ UNCHANGED <<teamMembers, teamStats, analyticsCards, talent_scarcity,
                   coreVars, panelVars, skillVars, appVars>>

\* TeamBuilder renders its teamStats.
RenderTeamStats ==
    /\ teamStats = <<>>
    /\ teamStats' = <<TeamBuilder_teamStats(teamMembers)>>
    /\ UNCHANGED <<teamMembers, chemistry, analyticsCards, talent_scarcity,
                   coreVars, panelVars, skillVars, appVars>>

\* AnalyticsDashboard renders its key metrics.
RenderAnalyticsCards ==
    /\ analyticsCards = <<>>
    /\ analyticsCards' = <<average_cards(teamMembers)>>
    /\ UNCHANGED <<teamMembers, chemistry, teamStats, talent_scarcity,
                   coreVars, panelVars, skillVars, appVars>>

\* The hiring strategy computes the scarcity of every tracked skill.
AnalyzeTalentScarcity ==
    /\ talent_scarcity = <<>>
    /\ talent_scarcity' = <<[sk \in ScarcitySkills |-> scarcity(teamMembers, sk)]>>
    /\ UNCHANGED <<teamMembers, chemistry, teamStats, analyticsCards,
                   coreVars, panelVars, skillVars, appVars>>

NextAggregates ==
    \/ AnalyzeChemistry
    \/ RenderTeamStats
    \/ RenderAnalyticsCards
    \/ AnalyzeTalentScarcity

SpecAggregates == InitAggregates /\ [][NextAggregates]_vars

IsZero(x) == x.kind = "number" /\ x.num = 0

\* C17: over the empty candidate set or team every aggregate is zero or empty:
\* the averages are the number 0 (no division by zero), the total salary is 0,
\* and the counts of distinct countries, skills and timezones are 0.
AggregatesOfEmptySetAreZero ==
    teamMembers = <<>> =>
        /\ chemistry # <<>> =>
               /\ chemistry[1].diversity = 0
               /\ chemistry[1].skillOverlap = 0
               /\ chemistry[1].timezoneSpread = 0
               /\ IsZero(chemistry[1].averageQuality)
        /\ teamStats # <<>> =>
               /\ IsZero(teamStats[1].avgScore)
               /\ teamStats[1].totalSalary = 0
               /\ teamStats[1].uniqueSkills = 0
               /\ teamStats[1].countries = 0
        /\ analyticsCards # <<>> =>
               /\ IsZero(analyticsCards[1].averageSalary)
               /\ IsZero(analyticsCards[1].averageScore)

\* Positions of the candidates that have the skill, and of those among them
\* that score 80 or more.
HoldersOf(sk) == {i \in 1..Len(teamMembers) : sk \in Range(teamMembers[i].skills)}

QualityHoldersOf(sk) == {i \in HoldersOf(sk) : teamMembers[i].overall_score >= 80}

\* C18: for every skill the scarcity score is 1 - quality / max(total, 1); it
\* is a number in [0, 1], also when no candidate has the skill; and with one
\* quality candidate fewer among the same candidates with the skill the score
\* is not lower.
ScarcityScoreAsClaimed ==
    talent_scarcity # <<>> =>
        \A sk \in ScarcitySkills :
            LET total == Cardinality(HoldersOf(sk))
                quality == Cardinality(QualityHoldersOf(sk))
                floor == IF total >= 1 THEN total ELSE 1
                r == talent_scarcity[1][sk].scarcity_score
            IN  /\ r.kind = "number" /\ r.den > 0
                /\ r.num * floor = (floor - quality) * r.den
                /\ 0 <= r.num /\ r.num <= r.den
                /\ \A i \in QualityHoldersOf(sk) :
                       LET demoted == [teamMembers EXCEPT ![i].overall_score = 79]
                           fewer == scarcity(demoted, sk)
                       IN  /\ fewer.total_candidates = total
                           /\ fewer.quality_candidates = quality - 1
                           /\ fewer.scarcity_score.num * r.den
                                  >= r.num * fewer.scarcity_score.den

\* Two candidates have skill R, one of them scoring 80 or more: scarcity 1/2;
\* nobody has skill go: scarcity 1.
ScarcityWitness ==
    /\ talent_scarcity # <<>>
    /\ Cardinality(HoldersOf(<<"R">>)) = 2
    /\ Cardinality(QualityHoldersOf(<<"R">>)) = 1
    /\ talent_scarcity[1][<<"R">>].scarcity_score = Number(1, 2)
    /\ HoldersOf(<<"g", "o">>) = {}
    /\ talent_scarcity[1][<<"g", "o">>].scarcity_score = Number(1, 1)

(***************************************************************************)
(* Frame of the backend operations                                         *)
(***************************************************************************)

\* C19: scoring, query and optimize leave their input unchanged: no step
\* changes the record handed to scoring (its fields or its keys), the pool
\* handed to optimize, or the pool handed to query.
InputsLeftUnchanged ==
    [][/\ candidate' = candidate
       /\ calculated_score' = calculated_score
       /\ candidates_data' = candidates_data
       /\ queryPool' = queryPool]_vars

(***************************************************************************)
(* The App shell: fetchOverview, the loading gate, tabs and the team       *)
(***************************************************************************)

MaxCandidateId == 3

TEAM_LIMIT == 8

\* A label is its words; the first word is the tab's icon.
tabs ==
    <<[id |-> "dashboard", label |-> <<"icon", "Dashboard">>],
      [id |-> "candidates", label |-> <<"icon", "Candidates">>],
      [id |-> "team", label |-> <<"icon", "Team", "Builder">>],
      [id |-> "compare", label |-> <<"icon", "Compare">>],
      [id |-> "chemistry", label |-> <<"icon", "Team", "Chemistry">>],
      [id |-> "analytics", label |-> <<"icon", "Analytics">>],
      [id |-> "insights", label |-> <<"icon", "AI", "Insights">>]>>

\* response.data of GET /api/v1/overview: the empty object of the test's mock,
\* or an overview.
OverviewResponses ==
    {[kind |-> "object", total_candidates |-> <<>>],
     [kind |-> "object", total_candidates |-> <<975>>],
     [kind |-> "object", total_candidates |-> <<1200>>]}

\* The fallback data set when the request fails.
Fallback == [kind |-> "object", total_candidates |-> <<975>>]

\* tab.label.replace(/^[^\s]+\s/, ''): the label without its first word.
NavbarText(tab) == Tail(tab.label)

\* What App renders: the spinner while loading, else the Navbar's tabs.
Rendered ==
    IF loading THEN {<<"Loading", "HiringSight...">>}
    ELSE {NavbarText(tabs[i]) : i \in 1..Len(tabs)}

CandidateIds == 1..MaxCandidateId

InitApp ==
    /\ AppIdle
    /\ CoreIdle
    /\ PanelsIdle
    /\ SkillsIdle
    /\ AggregatesIdle

\* useEffect(() => { fetchOverview(); }, []): the request is sent.
Mount ==
    /\ overviewRequest.state = "none"
    /\ overviewRequest' = [state |-> "pending", data |-> Null]
    /\ UNCHANGED <<loading, overview, currentTab, selectionVars,
                   coreVars, panelVars, skillVars, aggVars>>

\* The request resolves: setOverview(response.data); setLoading(false).
FetchOverviewResolved ==
    /\ overviewRequest.state = "pending"
    /\ \E data \in OverviewResponses :
        /\ overviewRequest' = [state |-> "resolved", data |-> data]
        /\ overview' = data
    /\ loading' = FALSE
    /\ UNCHANGED <<currentTab, selectionVars, coreVars, panelVars, skillVars, aggVars>>

\* A catch branch that sets the fallback but leaves the spinner up.
FetchOverviewRejectedStillLoading ==
    /\ overviewRequest.state = "pending"
    /\ overviewRequest' = [state |-> "rejected", data |-> Null]
    /\ overview' = Fallback
    /\ UNCHANGED <<loading, currentTab, selectionVars, coreVars, panelVars, skillVars, aggVars>>

\* The request rejects: setOverview(fallback); setLoading(false).
FetchOverviewRejected ==
    /\ overviewRequest.state = "pending"
    /\ overviewRequest' = [state |-> "rejected", data |-> Null]
    /\ overview' = Fallback
    /\ loading' = FALSE
    /\ UNCHANGED <<currentTab, selectionVars, coreVars, panelVars, skillVars, aggVars>>

\* A click on a tab of the Navbar, which is rendered once loading is false.
handleTabChange ==
    /\ ~loading
    /\ \E i \in 1..Len(tabs) : currentTab' = tabs[i].id
    /\ UNCHANGED <<loading, overview, overviewRequest, selectionVars,
                   coreVars, panelVars, skillVars, aggVars>>

\* React re-renders: the handlers now close over the current state.
Render ==
    /\ <<renderedTeam, renderedCompare>> # <<selectedTeam, compareList>>
    /\ renderedTeam' = selectedTeam
    /\ renderedCompare' = compareList
    /\ UNCHANGED <<selectedTeam, compareList, shellVars, coreVars, panelVars, skillVars, aggVars>>

Without(list, id) == SelectSeq(list, LAMBDA c : c # id)

\* addToTeam(candidate) of App, for the candidate with this id.
addToTeamOf(id) ==
    /\ ~loading
    /\ Len(renderedTeam) < TEAM_LIMIT
    /\ id \notin Range(renderedTeam)
    /\ selectedTeam' = Append(renderedTeam, id)
    /\ UNCHANGED <<compareList, renderedTeam, renderedCompare, shellVars,
                   coreVars, panelVars, skillVars, aggVars>>

addToTeam == \E id \in CandidateIds : addToTeamOf(id)

\* removeFromTeam(candidateId) of App; CandidateExplorer's is the same.
removeFromTeamOf(id) ==
    /\ ~loading
    /\ selectedTeam' = Without(renderedTeam, id)
    /\ UNCHANGED <<compareList, renderedTeam, renderedCompare, shellVars,
                   coreVars, panelVars, skillVars, aggVars>>

removeFromTeam == \E id \in CandidateIds : removeFromTeamOf(id)

clearTeam ==
    /\ ~loading
    /\ selectedTeam' = <<>>
    /\ UNCHANGED <<compareList, renderedTeam, renderedCompare, shellVars,
                   coreVars, panelVars, skillVars, aggVars>>

NextApp ==
    \/ Mount
    \/ FetchOverviewResolved
    \/ FetchOverviewRejected
    \/ handleTabChange
    \/ addToTeam
    \/ removeFromTeam
    \/ clearTeam
    \/ Render

SpecApp == InitApp /\ [][NextApp]_vars

Settled == overviewRequest.state \in {"resolved", "rejected"}

\* C20: from the start and until the overview request settles the App is
\* loading, showing the spinner and no tab; once the request has settled, by resolving or by rejecting, loading is false,
\* overview is the response data or the fallback and not null, and the tabs
\* Dashboard, Candidates and Team Builder are rendered; loading never goes back
\* from false to true.
LoadingEndsWhenOverviewSettles ==
    /\ [](~Settled => loading /\ Rendered = {<<"Loading", "HiringSight...">>})
    /\ [](Settled =>
            /\ ~loading
            /\ overview # Null
            /\ overviewRequest.state = "resolved" => overview = overviewRequest.data
            /\ overviewRequest.state = "rejected" => overview = Fallback
            /\ {<<"Dashboard">>, <<"Candidates">>, <<"Team", "Builder">>}
                   \subseteq Rendered)
    /\ [][~loading => ~loading']_vars

\* The request was rejected: the fallback is shown behind the tabs, and the
\* user has moved to the Team Builder tab and picked a candidate.
LoadingEndsWitness ==
    /\ overviewRequest.state = "rejected"
    /\ ~loading
    /\ overview = Fallback
    /\ <<"Team", "Builder">> \in Rendered
    /\ currentTab = "team"
    /\ selectedTeam # <<>>

(***************************************************************************)
(* The selection state of the App: selectedTeam and compareList, and the  *)
(* handlers of App.js and CandidateExplorer.js that change them.  A       *)
(* handler is a closure of the last render: it reads the list it captured *)
(* then and sets the state to a list built from it.                       *)
(***************************************************************************)

EXPLORER_TEAM_LIMIT == 5
COMPARE_LIMIT == 4

\* Selections made before the clicks that are explored, on other candidates.
EarlierTeams == {<<>>, <<11, 12, 13, 14, 15>>}
EarlierCompares == {<<>>, <<21, 22>>}

NoDuplicates(list) == \A i, j \in 1..Len(list) : list[i] = list[j] => i = j

\* The App after its overview request has failed, with earlier selections.
InitSelection ==
    /\ loading = FALSE
    /\ overview = Fallback
    /\ overviewRequest = [state |-> "rejected", data |-> Null]
    /\ currentTab = "dashboard"
    /\ selectedTeam \in EarlierTeams
    /\ compareList \in EarlierCompares
    /\ renderedTeam = selectedTeam
    /\ renderedCompare = compareList
    /\ CoreIdle
    /\ PanelsIdle
    /\ SkillsIdle
    /\ AggregatesIdle

\* addToTeam(candidate) of CandidateExplorer, for the candidate with this id.
CandidateExplorer_addToTeamOf(id) ==
    /\ ~loading
    /\ Len(renderedTeam) < EXPLORER_TEAM_LIMIT
    /\ id \notin Range(renderedTeam)
    /\ selectedTeam' = Append(renderedTeam, id)
    /\ UNCHANGED <<compareList, renderedTeam, renderedCompare, shellVars,
                   coreVars, panelVars, skillVars, aggVars>>

CandidateExplorer_addToTeam == \E id \in CandidateIds : CandidateExplorer_addToTeamOf(id)

\* removeFromTeam(candidateId) of CandidateExplorer, on a card of a member.
CandidateExplorer_removeFromTeamOf(id) ==
    /\ ~loading
    /\ id \in Range(renderedTeam)
    /\ selectedTeam' = Without(renderedTeam, id)
    /\ UNCHANGED <<compareList, renderedTeam, renderedCompare, shellVars,
                   coreVars, panelVars, skillVars, aggVars>>

CandidateExplorer_removeFromTeam ==
    \E id \in CandidateIds : CandidateExplorer_removeFromTeamOf(id)

addToCompareUnchecked(id) ==
    /\ ~loading
    /\ compareList' = Append(renderedCompare, id)
    /\ UNCHANGED <<selectedTeam, renderedTeam, renderedCompare, shellVars,
                   coreVars, panelVars, skillVars, aggVars>>

\* addToCompare(candidate) of App, for the candidate with this id.
addToCompareOf(id) ==
    /\ ~loading
    /\ Len(renderedCompare) < COMPARE_LIMIT
    /\ id \notin Range(renderedCompare)
    /\ compareList' = Append(renderedCompare, id)
    /\ UNCHANGED <<selectedTeam, renderedTeam, renderedCompare, shellVars,
                   coreVars, panelVars, skillVars, aggVars>>

addToCompare == \E id \in CandidateIds : addToCompareOf(id)

removeFromCompareOf(id) ==
    /\ ~loading
    /\ compareList' = Without(renderedCompare, id)
    /\ UNCHANGED <<selectedTeam, renderedTeam, renderedCompare, shellVars,
                   coreVars, panelVars, skillVars, aggVars>>

removeFromCompare == \E id \in CandidateIds : removeFromCompareOf(id)

clearCompare ==
    /\ ~loading
    /\ compareList' = <<>>
    /\ UNCHANGED <<selectedTeam, renderedTeam, renderedCompare, shellVars,
                   coreVars, panelVars, skillVars, aggVars>>

\* moveToTeam(candidate): removeFromCompare(candidate.id), then
\* addToTeam(candidate), both of the same render.
moveToTeamOf(id) ==
    /\ ~loading
    /\ compareList' = Without(renderedCompare, id)
    /\ selectedTeam' =
           IF Len(renderedTeam) < TEAM_LIMIT /\ id \notin Range(renderedTeam)
           THEN Append(renderedTeam, id)
           ELSE selectedTeam
    /\ UNCHANGED <<renderedTeam, renderedCompare, shellVars,
                   coreVars, panelVars, skillVars, aggVars>>

moveToTeam == \E id \in CandidateIds : moveToTeamOf(id)

NextSelection ==
    \/ addToTeam
    \/ removeFromTeam
    \/ clearTeam
    \/ CandidateExplorer_addToTeam
    \/ CandidateExplorer_removeFromTeam
    \/ addToCompare
    \/ removeFromCompare
    \/ clearCompare
    \/ moveToTeam
    \/ Render

SpecSelection == InitSelection /\ [][NextSelection]_vars

\* C21: in every reachable state the selected team has at most 5 members.
TeamAtMostFive == Len(selectedTeam) <= 5

Fresh == renderedTeam = selectedTeam /\ renderedCompare = compareList

\* The App with a team of seven: five members added in the explorer, two
\* more by the addToTeam of App.
InitMove ==
    /\ loading = FALSE
    /\ overview = Fallback
    /\ overviewRequest = [state |-> "rejected", data |-> Null]
    /\ currentTab = "compare"
    /\ selectedTeam = <<11, 12, 13, 14, 15, 16, 17>>
    /\ compareList \in EarlierCompares
    /\ renderedTeam = selectedTeam
    /\ renderedCompare = compareList
    /\ CoreIdle
    /\ PanelsIdle
    /\ SkillsIdle
    /\ AggregatesIdle

SpecMove == InitMove /\ [][NextSelection]_vars

\* C24: a moveToTeam(c) of a compared candidate c, run on a freshly rendered
\* App, leaves c a member of the selected team and out of the compare list.
MovedCandidateIsInTeam ==
    [][\A id \in Range(compareList) :
          Fresh /\ moveToTeamOf(id) =>
              id \in Range(selectedTeam') /\ id \notin Range(compareList')]_vars

\* C25: no candidate id occurs twice in the selected team nor twice in the
\* compare list, and the compare list has at most 4 entries.
ListsHoldNoDuplicates ==
    /\ NoDuplicates(selectedTeam)
    /\ NoDuplicates(compareList)
    /\ Len(compareList) <= 4

\* The compare list is full and holds an added candidate who is in the team
\* as well, and the rendered handlers are asked for one more candidate.
ListsHoldNoDuplicatesWitness ==
    /\ Len(compareList) = 4
    /\ Fresh
    /\ \E a, b \in CandidateIds :
          /\ a \in Range(compareList)
          /\ b \notin Range(compareList)
          /\ a \in Range(selectedTeam)

\* C26: a team operation keeps what the operations before it did: an add
\* keeps every member the team had, a remove takes out the one candidate only.
NoTeamUpdateLost ==
    [][\A id \in CandidateIds :
          /\ (addToTeamOf(id) \/ CandidateExplorer_addToTeamOf(id)) =>
                 Range(selectedTeam) \subseteq Range(selectedTeam')
          /\ (removeFromTeamOf(id) /\ id \in Range(renderedTeam)) =>
                 Range(selectedTeam') = Range(selectedTeam) \ {id}]_vars

(***************************************************************************)
(* CandidateExplorer.js and its FilterPanel: the filters, the debounced    *)
(* fetch of the candidates and what is displayed of the responses.  Of the *)
(* filters the model keeps country (for the panel's inputs other than the  *)
(* search box), search and limit.                                          *)
(***************************************************************************)

MaxInFlight == 2

DEBOUNCE_MS == 300
INITIAL_LIMIT == 50
LIMIT_STEP == 20
LIMIT_CAP == 200

SearchTexts == {"", "a"}
CountryOptions == {"", "US"}

defaultFilters == [country |-> "", search |-> "", limit |-> INITIAL_LIMIT]

\* response.data of GET /api/v1/candidates; candidates may be missing.
ResponseData ==
    {[candidates |-> <<>>, total_returned |-> 0],
     [candidates |-> << <<>> >>, total_returned |-> 0],
     [candidates |-> << <<1, 2>> >>, total_returned |-> 2]}

nonExplorerVars == <<coreVars, skillVars, aggVars, appVars, insightVars, compareViewVars>>

\* The App has loaded and shows the given tab.
AppShows(tab) ==
    /\ loading = FALSE
    /\ overview = Fallback
    /\ overviewRequest = [state |-> "rejected", data |-> Null]
    /\ currentTab = tab
    /\ selectedTeam = <<>>
    /\ compareList = <<>>
    /\ renderedTeam = <<>>
    /\ renderedCompare = <<>>

\* return () => clearTimeout(debounceTimer): the timer of the effect before.
cleanup(ts) == IF ts = <<>> THEN <<>> ELSE SubSeq(ts, 1, Len(ts) - 1)

schedule_without_cleanup(ts, f, term) ==
    Append(ts, [remaining |-> DEBOUNCE_MS, filters |-> f, searchTerm |-> term])

\* The effect on [filters]: the cleanup of the effect before, then setTimeout
\* of a callback that closes over the filters and searchTerm of this render.
schedule(ts, f, term) ==
    Append(cleanup(ts), [remaining |-> DEBOUNCE_MS, filters |-> f, searchTerm |-> term])

\* The URLSearchParams of fetchCandidates, as key and value pairs in order.
RequestParams(f, term) ==
    SelectSeq(<<<<"country", f.country>>, <<"search", f.search>>>>,
              LAMBDA entry : entry[2] # "")
    \o <<<<"limit", ToString(f.limit)>>>>
    \o (IF term # "" THEN <<<<"search", term>>>> ELSE <<>>)

\* The CandidateExplorer after its first render and effect.
InitExplorer ==
    /\ filters = defaultFilters
    /\ searchTerm = ""
    /\ showFilters = FALSE
    /\ explorerCandidates = <<>>
    /\ stats = Null
    /\ candidatesLoading = TRUE
    /\ timers = schedule(<<>>, defaultFilters, "")
    /\ requests = <<>>
    /\ lastRequest = Null
    /\ AppShows("candidates")
    /\ CoreIdle
    /\ SkillsIdle
    /\ AggregatesIdle
    /\ InsightsIdle
    /\ CompareViewIdle

\* if (loading && candidates.length === 0) return <LoadingSpinner />
ExplorerShown == ~(candidatesLoading /\ explorerCandidates = <<>>)

\* setFilters with its effect, for the handlers that leave searchTerm alone.
setFilters(f) ==
    /\ filters' = f
    /\ timers' = schedule(timers, f, searchTerm)
    /\ UNCHANGED <<searchTerm, showFilters, explorerCandidates, stats,
                   candidatesLoading, requests, lastRequest, nonExplorerVars>>

toggleFilters ==
    /\ ExplorerShown
    /\ showFilters' = ~showFilters
    /\ UNCHANGED <<filters, searchTerm, explorerCandidates, stats, candidatesLoading,
                   timers, requests, lastRequest, nonExplorerVars>>

\* handleSearch(value), from the search box of the explorer.
handleSearch ==
    /\ ExplorerShown
    /\ \E value \in SearchTexts :
          /\ searchTerm' = value
          /\ filters' = [filters EXCEPT !.search = value]
          /\ timers' = schedule(timers, filters', value)
    /\ UNCHANGED <<showFilters, explorerCandidates, stats, candidatesLoading,
                   requests, lastRequest, nonExplorerVars>>

\* updateFilter(key, value) of the FilterPanel, for one of its inputs.
updateFilterOf(key, value) ==
    /\ ExplorerShown
    /\ showFilters
    /\ setFilters([filters EXCEPT ![key] = value])

updateCountry == \E value \in CountryOptions : updateFilterOf("country", value)

updateSearch == \E value \in SearchTexts : updateFilterOf("search", value)

\* clearFilters of the FilterPanel.
clearFilters ==
    /\ ExplorerShown
    /\ showFilters
    /\ setFilters(defaultFilters)

\* Clear All Filters of the empty state.
clearAllFilters ==
    /\ explorerCandidates = <<>>
    /\ ~candidatesLoading
    /\ filters' = defaultFilters
    /\ searchTerm' = ""
    /\ timers' = schedule(timers, defaultFilters, "")
    /\ UNCHANGED <<showFilters, explorerCandidates, stats, candidatesLoading,
                   requests, lastRequest, nonExplorerVars>>

load_more_uncapped(f) == [f EXCEPT !.limit = f.limit + LIMIT_STEP]

\* {...filters, limit: Math.min(filters.limit + 20, 200)}
load_more(f) == [f EXCEPT !.limit = Min(f.limit + LIMIT_STEP, LIMIT_CAP)]

\* The Load More button, disabled while loading.
loadMore ==
    /\ ExplorerShown
    /\ ~candidatesLoading
    /\ setFilters(load_more(filters))

\* 300 ms pass without a change of the filters.
Elapse ==
    /\ \E i \in 1..Len(timers) : timers[i].remaining > 0
    /\ timers' = [i \in 1..Len(timers) |-> [timers[i] EXCEPT !.remaining = 0]]
    /\ UNCHANGED <<filters, searchTerm, showFilters, explorerCandidates, stats,
                   candidatesLoading, requests, lastRequest, nonExplorerVars>>

\* A timer fires: fetchCandidates of its render, up to the await.
fetchCandidates ==
    /\ Len(requests) < MaxInFlight
    /\ \E i \in 1..Len(timers) :
          /\ timers[i].remaining = 0
          /\ timers' = SubSeq(timers, 1, i - 1) \o SubSeq(timers, i + 1, Len(timers))
          /\ lastRequest' = [params |-> RequestParams(timers[i].filters, timers[i].searchTerm),
                             state |-> "pending",
                             data |-> Null]
    /\ candidatesLoading' = TRUE
    /\ requests' = Append([i \in 1..Len(requests) |-> [latest |-> FALSE]], [latest |-> TRUE])
    /\ UNCHANGED <<filters, searchTerm, showFilters, explorerCandidates, stats,
                   nonExplorerVars>>

settle(i, state, data) ==
    /\ requests' = SubSeq(requests, 1, i - 1) \o SubSeq(requests, i + 1, Len(requests))
    /\ lastRequest' = IF requests[i].latest
                      THEN [lastRequest EXCEPT !.state = state, !.data = data]
                      ELSE lastRequest

\* response.data.candidates || []
candidates_or_empty(data) == IF data.candidates = <<>> THEN <<>> ELSE data.candidates[1]

\* A request is answered: fetchCandidates after the await.
candidatesResolved ==
    /\ \E i \in 1..Len(requests), data \in ResponseData :
          /\ settle(i, "fulfilled", data)
          /\ explorerCandidates' = candidates_or_empty(data)
          /\ stats' = data
    /\ candidatesLoading' = FALSE
    /\ UNCHANGED <<filters, searchTerm, showFilters, timers, nonExplorerVars>>

\* A request fails: the catch of fetchCandidates.
candidatesRejected ==
    /\ \E i \in 1..Len(requests) : settle(i, "rejected", Null)
    /\ explorerCandidates' = <<>>
    /\ candidatesLoading' = FALSE
    /\ UNCHANGED <<filters, searchTerm, showFilters, stats, timers, nonExplorerVars>>

NextExplorer ==
    \/ toggleFilters
    \/ handleSearch
    \/ updateCountry
    \/ updateSearch
    \/ clearFilters
    \/ clearAllFilters
    \/ loadMore
    \/ Elapse
    \/ fetchCandidates
    \/ candidatesResolved
    \/ candidatesRejected

SpecExplorer == InitExplorer /\ [][NextExplorer]_vars

\* The values a request carries under a key.
Carried(params, key) == {params[i][2] : i \in {j \in 1..Len(params) : params[j][1] = key}}

Issued == Len(requests') > Len(requests)

\* C22: at most one fetch is scheduled at any time; a change of the filters
\* leaves scheduled exactly one fetch, 300 ms ahead; and a request is issued
\* only by the one scheduled fetch, when its 300 ms have passed without a
\* change, and carries the country, search and limit of the last change.
FetchIsDebounced ==
    /\ [](Len(timers) <= 1)
    /\ [][filters' # filters =>
             /\ Len(timers') = 1
             /\ timers'[1].remaining = 300
             /\ timers'[1].filters = filters']_vars
    /\ [][Issued =>
             /\ Len(timers) = 1
             /\ timers[1].remaining = 0
             /\ timers' = <<>>
             /\ Carried(lastRequest'.params, "country") =
                    (IF filters.country = "" THEN {} ELSE {filters.country})
             /\ Carried(lastRequest'.params, "limit") = {ToString(filters.limit)}
             /\ (filters.search # "" =>
                    filters.search \in Carried(lastRequest'.params, "search"))]_vars

\* Since the request of the mount, answered by now, the country and the
\* search were changed one after the other, and the one fetch that is left
\* scheduled is due.
FetchIsDebouncedWitness ==
    /\ requests = <<>>
    /\ lastRequest # Null
    /\ lastRequest.params = <<<<"limit", "50">>>>
    /\ filters = [country |-> "US", search |-> "a", limit |-> 50]
    /\ Len(timers) = 1
    /\ timers[1].remaining = 0

\* C23: once every request has settled and the most recently issued one was
\* answered, the displayed candidates and stats are those of its response.
LatestResponseIsShown ==
    (requests = <<>> /\ lastRequest # Null) =>
        (lastRequest.state = "fulfilled" =>
            /\ stats = lastRequest.data
            /\ explorerCandidates =
                   (IF lastRequest.data.candidates = <<>>
                    THEN <<>>
                    ELSE lastRequest.data.candidates[1]))

\* C27: in every reachable state of the explorer searchTerm equals
\* filters.search.
SearchTermIsFilterSearch == filters # Null => searchTerm = filters.search

\* C28: filters.limit is within 50..200 in every state, and it changes only
\* by a Load More, to 20 more and at most 200 with the other filters kept, or
\* by a reset of all filters, to 50.
LimitStaysInRange ==
    /\ [](filters.limit \in 50..200)
    /\ [][filters'.limit # filters.limit =>
             \/ filters' = [filters EXCEPT !.limit =
                               IF filters.limit + 20 > 200 THEN 200 ELSE filters.limit + 20]
             \/ filters' = [country |-> "", search |-> "", limit |-> 50]]_vars

\* Load More has taken the limit from 190 to 200, and a country chosen since
\* has left it there.
LimitStaysInRangeWitness ==
    /\ filters # Null
    /\ filters.limit = 200
    /\ filters.country = "US"
    /\ Len(timers) = 1
    /\ timers[1].filters.limit = 200
    /\ lastRequest # Null
    /\ Carried(lastRequest.params, "limit") = {"200"}
    /\ Carried(lastRequest.params, "country") = {}

(***************************************************************************)
(* InsightsPanel.js: fetchInsights, first from the static JSON file and    *)
(* then from the API, its error view with Try Again, and the tabs.         *)
(***************************************************************************)

MaxRuns == 3

Timestamps == {"2025-01-01", "2025-02-01", "2025-03-01"}

\* What response.json() of the static file can yield: null or a report.
StaticInsights ==
    {Null} \cup {[kind |-> "object", source |-> "static", timestamp |-> t] : t \in Timestamps}

\* apiResponse.data
ApiInsights ==
    {Null} \cup {[kind |-> "object", source |-> "api", timestamp |-> t] : t \in Timestamps}

InsightTabs == {"executive", "market", "teams", "skills", "geography", "budget", "risks"}

FAILED == <<"Failed to load insights. Please try again.">>

nonInsightVars == <<coreVars, skillVars, aggVars, appVars, explorerVars, compareViewVars>>

\* fetchInsights up to its first await: setLoading(true), setError(null),
\* fetch of the static file.
startFetchInsights(run) ==
    /\ insightsLoading' = TRUE
    /\ error' = <<>>
    /\ fetchInsightsAt' = [run |-> run, at |-> "fetch"]
    /\ UNCHANGED <<insights, activeTab, nonInsightVars>>

\* The InsightsPanel after its first render and effect.
InitInsights ==
    /\ insights = Null
    /\ insightsLoading = TRUE
    /\ error = <<>>
    /\ activeTab = "executive"
    /\ fetchInsightsAt = [run |-> 1, at |-> "fetch"]
    /\ AppShows("insights")
    /\ CoreIdle
    /\ SkillsIdle
    /\ AggregatesIdle
    /\ ExplorerIdle
    /\ CompareViewIdle

goTo(await) ==
    /\ fetchInsightsAt' = [fetchInsightsAt EXCEPT !.at = await]
    /\ UNCHANGED <<insights, insightsLoading, error, activeTab, nonInsightVars>>

\* fetch resolves with response.ok: on to response.json().
staticFetchOk ==
    /\ fetchInsightsAt.at = "fetch"
    /\ goTo("json")

\* fetch resolves with a response that is not ok: on to the API.
staticFetchNotOk ==
    /\ fetchInsightsAt.at = "fetch"
    /\ goTo("api")

\* fetch rejects: the inner catch, then on to the API.
staticFetchRejected ==
    /\ fetchInsightsAt.at = "fetch"
    /\ goTo("api")

\* response.json() resolves: setInsights, setLoading(false), return.
staticJsonParsed ==
    /\ fetchInsightsAt.at = "json"
    /\ \E data \in StaticInsights : insights' = data
    /\ insightsLoading' = FALSE
    /\ fetchInsightsAt' = [fetchInsightsAt EXCEPT !.at = "done"]
    /\ UNCHANGED <<error, activeTab, nonInsightVars>>

\* response.json() rejects: the inner catch, then on to the API.
staticJsonRejected ==
    /\ fetchInsightsAt.at = "json"
    /\ goTo("api")

apiResolved ==
    /\ fetchInsightsAt.at = "api"
    /\ \E data \in ApiInsights : insights' = data
    /\ insightsLoading' = FALSE
    /\ fetchInsightsAt' = [fetchInsightsAt EXCEPT !.at = "done"]
    /\ UNCHANGED <<error, activeTab, nonInsightVars>>

\* axios.get rejects: the outer catch.
apiRejected ==
    /\ fetchInsightsAt.at = "api"
    /\ error' = FAILED
    /\ insightsLoading' = FALSE
    /\ fetchInsightsAt' = [fetchInsightsAt EXCEPT !.at = "done"]
    /\ UNCHANGED <<insights, activeTab, nonInsightVars>>

tryAgainKeepingError ==
    /\ ~insightsLoading
    /\ error # <<>>
    /\ fetchInsightsAt.run < MaxRuns
    /\ insightsLoading' = TRUE
    /\ fetchInsightsAt' = [run |-> fetchInsightsAt.run + 1, at |-> "fetch"]
    /\ UNCHANGED <<error, insights, activeTab, nonInsightVars>>

\* The Try Again button of the error view.
tryAgain ==
    /\ ~insightsLoading
    /\ error # <<>>
    /\ fetchInsightsAt.run < MaxRuns
    /\ startFetchInsights(fetchInsightsAt.run + 1)

\* A click on a tab of the report, which is rendered once insights are there.
setActiveTab ==
    /\ ~insightsLoading
    /\ error = <<>>
    /\ insights # Null
    /\ \E tab \in InsightTabs : activeTab' = tab
    /\ UNCHANGED <<insights, insightsLoading, error, fetchInsightsAt, nonInsightVars>>

NextInsights ==
    \/ staticFetchOk
    \/ staticFetchNotOk
    \/ staticFetchRejected
    \/ staticJsonParsed
    \/ staticJsonRejected
    \/ apiResolved
    \/ apiRejected
    \/ tryAgain
    \/ setActiveTab

SpecInsights == InitInsights /\ [][NextInsights]_vars

\* Every promise a run awaits settles.
FairSpecInsights ==
    /\ SpecInsights
    /\ WF_vars(staticFetchOk \/ staticFetchNotOk \/ staticFetchRejected)
    /\ WF_vars(staticJsonParsed \/ staticJsonRejected)
    /\ WF_vars(apiResolved \/ apiRejected)

RunEnded == fetchInsightsAt.at = "done"

FromSource(data, source) == data = Null \/ data.source = source

\* C29: every run of fetchInsights ends, with loading false; the insights are
\* set from the static JSON when it was fetched and parsed, and from the API
\* only after the static JSON failed; error is set only when the API fails
\* after the static JSON did; and a run clears the error when it starts, so
\* that an error is never present together with loaded insights.
FetchInsightsEnds ==
    /\ (~RunEnded) ~> (RunEnded /\ ~insightsLoading)
    /\ [](RunEnded <=> ~insightsLoading)
    /\ [](~RunEnded => error = <<>>)
    /\ [](~(error # <<>> /\ insights # Null))
    /\ [][fetchInsightsAt.at = "json" /\ RunEnded' =>
             FromSource(insights', "static") /\ error' = <<>>]_vars
    /\ [][fetchInsightsAt'.at = "api" /\ fetchInsightsAt.at # "api" =>
             fetchInsightsAt.at \in {"fetch", "json"} /\ insights' = insights]_vars
    /\ [][fetchInsightsAt.at = "api" /\ RunEnded' =>
             \/ FromSource(insights', "api") /\ error' = <<>>
             \/ insights' = insights /\ error' # <<>>]_vars
    /\ [][error' # <<>> /\ error = <<>> => fetchInsightsAt.at = "api"]_vars

\* A second run, started by Try Again after a failed first one, has loaded
\* the insights from the API; the error of the first run is gone.
FetchInsightsEndsWitness ==
    /\ fetchInsightsAt = [run |-> 2, at |-> "done"]
    /\ ~insightsLoading
    /\ error = <<>>
    /\ insights # Null
    /\ insights.source = "api"
    /\ activeTab = "risks"

(***************************************************************************)
(* Compare.js: the Most Cost-Effective card of the comparison summary.     *)
(***************************************************************************)

MaxCompared == 2

ComparedScores == {0, 80, 90}

\* salary_full_time: absent, 0 or an amount.
ComparedSalaries == {<<>>, <<0>>, <<50000>>, <<100000>>}

ComparedNames == <<"Ana", "Ben", "Cy", "Di">>

\* The lists the Compare view can be given: up to MaxCompared candidates,
\* and never more than addToCompare lets in.
ComparedLists ==
    UNION {{list \in [1..n -> [id : 1..n,
                               name : Range(ComparedNames),
                               overall_score : ComparedScores,
                               salary_full_time : ComparedSalaries]] :
               \A i \in 1..n : list[i].id = i /\ list[i].name = ComparedNames[i]} :
           n \in 1..Min(MaxCompared, COMPARE_LIMIT)}

nonCompareViewVars ==
    <<coreVars, skillVars, aggVars, shellVars, selectedTeam, renderedTeam,
      explorerVars, insightVars>>

\* c.salary_full_time && c.salary_full_time > 0
has_salary(c) == c.salary_full_time # <<>> /\ c.salary_full_time[1] > 0

\* c.salary_full_time || 1
salary_or_1(c) == IF c.salary_full_time = <<>> \/ c.salary_full_time[1] = 0
                  THEN 1
                  ELSE c.salary_full_time[1]

\* currentRatio > prevRatio, for ratios of a score to a positive amount.
ratio_greater(current, prev) ==
    current.overall_score * salary_or_1(prev) > prev.overall_score * salary_or_1(current)

RECURSIVE reduce_cost_effective(_, _)
reduce_cost_effective(list, prev) ==
    IF list = <<>>
    THEN prev
    ELSE reduce_cost_effective(Tail(list),
                               IF ratio_greater(Head(list), prev) THEN Head(list) ELSE prev)

\* compareList.filter(...).reduce(..., compareList[0])
cost_effective(list) == reduce_cost_effective(SelectSeq(list, has_salary), list[1])

RECURSIVE digits3(_, _)
digits3(n, k) == IF k = 0 THEN "" ELSE digits3(n \div 10, k - 1) \o ToString(n % 10)

\* toLocaleString() of a whole amount: groups of three digits.
RECURSIVE toLocaleString(_)
toLocaleString(n) ==
    IF n < 1000
    THEN ToString(n)
    ELSE toLocaleString(n \div 1000) \o "," \o digits3(n % 1000, 3)

\* costEffective.salary_full_time?.toLocaleString() || 'N/A'
salary_text(c) == IF c.salary_full_time = <<>>
                  THEN "N/A"
                  ELSE toLocaleString(c.salary_full_time[1])

\* The card: the candidate's name and salary, or 'No salary data'.
cost_effective_card(list) ==
    LET costEffective_ == cost_effective(list)
    IN  [name |-> costEffective_.name, text |-> "$" \o salary_text(costEffective_)]

\* The App shows the Compare tab with a list of candidates to compare.
InitCompareView ==
    /\ comparedCandidates \in ComparedLists
    /\ costEffective = <<>>
    /\ loading = FALSE
    /\ overview = Fallback
    /\ overviewRequest = [state |-> "rejected", data |-> Null]
    /\ currentTab = "compare"
    /\ selectedTeam = <<>>
    /\ renderedTeam = <<>>
    /\ compareList = [i \in 1..Len(comparedCandidates) |-> comparedCandidates[i].id]
    /\ renderedCompare = compareList
    /\ CoreIdle
    /\ SkillsIdle
    /\ AggregatesIdle
    /\ ExplorerIdle
    /\ InsightsIdle

\* Compare renders its summary for a list that is not empty.
RenderCompare ==
    /\ comparedCandidates # <<>>
    /\ costEffective = <<>>
    /\ costEffective' = <<cost_effective_card(comparedCandidates)>>
    /\ UNCHANGED <<comparedCandidates, compareList, renderedCompare, nonCompareViewVars>>

\* The remove button of a compared candidate: onRemoveFromCompare(id), and
\* Compare is given the new list.
Compare_remove ==
    /\ costEffective # <<>>
    /\ \E i \in 1..Len(comparedCandidates) :
          /\ comparedCandidates' =
                 SubSeq(comparedCandidates, 1, i - 1)
                 \o SubSeq(comparedCandidates, i + 1, Len(comparedCandidates))
          /\ compareList' = Without(renderedCompare, comparedCandidates[i].id)
    /\ renderedCompare' = compareList'
    /\ costEffective' = <<>>
    /\ UNCHANGED nonCompareViewVars

NextCompareView ==
    \/ RenderCompare
    \/ Compare_remove

SpecCompareView == InitCompareView /\ [][NextCompareView]_vars

WithSalary == {i \in 1..Len(comparedCandidates) :
                  /\ comparedCandidates[i].salary_full_time # <<>>
                  /\ comparedCandidates[i].salary_full_time[1] > 0}

\* C30: the card names a compared candidate with a positive salary whose
\* overall_score / salary is maximal among the compared candidates with a
\* positive salary, and reads 'No salary data' when there is none.
MostCostEffectiveIsPaid ==
    costEffective # <<>> =>
        IF WithSalary = {}
        THEN costEffective[1].text = "No salary data"
        ELSE \E i \in WithSalary :
                /\ costEffective[1].name = comparedCandidates[i].name
                /\ \A j \in WithSalary :
                      comparedCandidates[i].overall_score * comparedCandidates[j].salary_full_time[1]
                      >= comparedCandidates[j].overall_score * comparedCandidates[i].salary_full_time[1]

====
